---- MODULE Spec2Model ----
(***************************************************************************)
(* Model of KFS::Resolver::Impl (src/cc/kfsio/Resolver.cc): the facade     *)
(* (Start / Shutdown / Enqueue), the worker thread (Run / Process) and the *)
(* completion dispatcher (Timeout) that runs on the event-loop thread.     *)
(*                                                                         *)
(* Every thread is a small program counter machine.  The mutex is an       *)
(* explicit variable holding its owner, so a step that the code performs   *)
(* with the mutex held is an action whose guard says so, and a step that   *)
(* the code performs without it (all of Start, the first line of Timeout,  *)
(* Process, Done) is an action that does not look at the mutex at all.     *)
(* Enqueue, and the first half of Shutdown, hold the mutex from their      *)
(* first line to their last: each is one step that needs the mutex free.   *)
(*                                                                         *)
(* What Process writes into a Request is looked at on its own, in          *)
(* SpecProcess: one call, step by step, against every answer of the        *)
(* resolution backend; in the other specifications a worker's Process is   *)
(* one step that marks the Request resolved.                               *)
(***************************************************************************)
EXTENDS Integers, Sequences, FiniteSets, TLC

\* ---------------------------------------------------------------- bounds
\* Number of caller-owned Request objects.
NumReq == 2

\* ------------------------------------------------------------- constants
EINVAL == 22

\* Process is looked at on result lists of up to MaxEntries entries, the
\* backend failing with one of the codes 1..NumErr.
MaxEntries == 2
NumErr == 2

Requests == 1..NumReq

\* Threads that call the facade, the event-loop thread, the worker slots.
Callers == {"c1", "c2"}
EvThread == "ev"
Threads == Callers \cup {EvThread}
Workers == {"w1", "w2"}

NoOwner == "free"
NoThread == "none"
NoReq == 0

VARIABLES
    mRunFlag,      \* bool mRunFlag
    mQueue,        \* Queue mQueue: the pending queue
    mDoneQueue,    \* Queue mDoneQueue
    mDoneCount,    \* volatile int mDoneCount
    mMutex,        \* owner of QCMutex mMutex, or NoOwner
    mThread,       \* QCThread mThread: the worker it is a handle of
    registered,    \* is this ITimeout registered with the NetManager
    pc,            \* position of every caller thread and of the event loop
    inRequest,     \* the Request a Done() callback is handing to Enqueue
    ret,           \* the facade call that returned last, and its value
    wpc,           \* position of every worker slot
    theQueue,      \* Run's local Queue theQueue, per worker
    thePtr,        \* Run's cursor into theQueue, per worker
    theDoneQueue,  \* Timeout's local Queue theDoneQueue
    owed,          \* history: per Request, its successful Enqueue calls
                   \*          minus its Done() invocations
    order,         \* history: outstanding Requests in acceptance order
    resolved,      \* history: outstanding Requests Process has run on
    atShutdown,    \* history: Requests that were pending when Shutdown
                   \*          cleared mRunFlag (until accepted again)
    mWakeup,       \* NetManager: a Wakeup() call the event loop has not
                   \*          served yet
    ppc,           \* position of a Process call that is looked at alone
    inReq,         \* Process: the fields of Request& inReq
    backend,       \* Process: what getaddrinfo and getnameinfo answer
    theEntryPtr,   \* Process: the loop's cursor thePtr into the result list
    theErr,        \* Process: int theErr
    calls          \* history: getnameinfo calls Process has made

vars == <<mRunFlag, mQueue, mDoneQueue, mDoneCount, mMutex, mThread,
          registered, pc, inRequest, ret, wpc, theQueue, thePtr, theDoneQueue,
          owed, order, resolved, atShutdown, mWakeup,
          ppc, inReq, backend, theEntryPtr, theErr, calls>>

shared == <<mRunFlag, mQueue, mDoneQueue, mDoneCount, mThread, registered>>
workerVars == <<wpc, theQueue, thePtr>>
history == <<owed, order, resolved, atShutdown>>
processVars == <<ppc, inReq, backend, theEntryPtr, theErr, calls>>

\* ------------------------------------------------------------ the Queue
Range(s) == {s[i] : i \in DOMAIN s}

Remove(s, r) == SelectSeq(s, LAMBDA x : x # r)

\* SingleLinkedQueue::IsEmpty
IsEmpty(q) == q = <<>>

\* SingleLinkedQueue::PushBack(Request&)
PushBack(q, r) == Append(q, r)

\* SingleLinkedQueue::PushBack(Queue&): the destination after the splice
SpliceInto(dst, src) == dst \o src

\* SingleLinkedQueue::PushBack(Queue&): the source after the splice
SpliceRest(src) == <<>>

\* A Request is outstanding while some queue of the facade links it.
InWorkerBatch == UNION {Range(theQueue[w]) : w \in Workers}

Outstanding == Range(mQueue) \cup InWorkerBatch \cup Range(mDoneQueue)
                   \cup Range(theDoneQueue)

Alive == {w \in Workers : wpc[w] \notin {"none", "exited"}}

\* What a facade call hands back to its caller (0 for the void Shutdown).
Returned(op, val) == [op |-> op, val |-> val]

\* The fields of a Request that Process writes: mStatus, mStatusMsg and
\* mIpAddresses.  The empty string is the cleared mStatusMsg.
Fields(status, msg, addrs) ==
    [mStatus |-> status, mStatusMsg |-> msg, mIpAddresses |-> addrs]

NoFields == Fields(0, "", <<>>)

\* What the resolution backend answers for one host name: the value of
\* getaddrinfo and the list it hands back in theResPtr.
Answer(status, entries) == [status |-> status, entries |-> entries]

NoAnswer == Answer(0, <<>>)

\* ------------------------------------------------------------------ Init
Init ==
    /\ mRunFlag = FALSE
    /\ mQueue = <<>>
    /\ mDoneQueue = <<>>
    /\ mDoneCount = 0
    /\ mMutex = NoOwner
    /\ mThread = NoThread
    /\ registered = FALSE
    /\ pc = [t \in Threads |-> "idle"]
    /\ inRequest = NoReq
    /\ ret = Returned("none", 0)
    /\ wpc = [w \in Workers |-> "none"]
    /\ theQueue = [w \in Workers |-> <<>>]
    /\ thePtr = [w \in Workers |-> 1]
    /\ theDoneQueue = <<>>
    /\ owed = [r \in Requests |-> 0]
    /\ order = <<>>
    /\ resolved = {}
    /\ atShutdown = {}
    /\ mWakeup = FALSE
    /\ ppc = "none"
    /\ inReq = NoFields
    /\ backend = NoAnswer
    /\ theEntryPtr = 1
    /\ theErr = 0
    /\ calls = 0

\* ------------------------------------------- substrate: mutex, condition
\* QCStMutexLocker / QCStMutexUnlocker::Lock: blocks while another thread
\* owns the mutex.
CanLock(owner) == owner = NoOwner

\* QCCondVar::Notify: wakes one thread waiting on the condition, if any;
\* a notification nobody waits for is lost.
Notify(wp) ==
    IF \E w \in Workers : wp[w] = "waiting"
    THEN {[wp EXCEPT ![w] = "notified"] : w \in {x \in Workers : wp[x] = "waiting"}}
    ELSE {wp}

\* QCThread::Start: launches a thread that executes Run(); the QCThread
\* object is the handle of the thread it launched last.  Which slot of the
\* model stands for the new thread does not matter: the first free one.
FreeSlots(wp) ==
    IF wp["w1"] = "none" THEN {"w1"}
    ELSE IF wp["w2"] = "none" THEN {"w2"} ELSE {}

\* QCThread::Join: returns once the thread the handle names has exited
\* (at once when the handle names no thread).
Joinable(h, wp) == IF h = NoThread THEN TRUE ELSE wp[h] = "exited"

\* NetManager::Wakeup: makes the event loop run its timeout handlers
\* promptly; calls made before the loop gets to it coalesce.
Wakeup(pending) == TRUE

\* The event loop has served every Wakeup() once it invokes the handlers.
WakeupServed(pending) == FALSE

\* ----------------------------------------------------------------- Start
StartRejectsNever(flag) == FALSE

\* line 64: if (mRunFlag) return -EINVAL;
StartRejects(flag) == flag

InStart(t) == pc[t] \in {"start_check", "start_set", "start_thread"}
InShutdown(t) == pc[t] \in {"sd_lock", "sd_join", "sd_unreg"}

\* Start takes no lock, so the caller has to keep it apart from every other
\* lifecycle call; Shutdown takes the mutex and may overlap another Shutdown.
StartAllowed == \A t \in Callers : ~InStart(t) /\ ~InShutdown(t)
ShutdownAllowed == \A t \in Callers : ~InStart(t)

CallStartAny(t) ==
    /\ pc[t] = "idle"
    /\ pc' = [pc EXCEPT ![t] = "start_check"]
    /\ UNCHANGED <<shared, mMutex, inRequest, ret, workerVars, theDoneQueue, history>>
    /\ UNCHANGED <<mWakeup, processVars>>

CallStart(t) ==
    /\ StartAllowed
    /\ CallStartAny(t)

\* lines 64-66, no lock held
StartCheck(t) ==
    /\ pc[t] = "start_check"
    /\ IF StartRejects(mRunFlag)
       THEN /\ ret' = Returned("Start", -EINVAL)
            /\ pc' = [pc EXCEPT ![t] = "idle"]
       ELSE /\ pc' = [pc EXCEPT ![t] = "start_set"]
            /\ UNCHANGED ret
    /\ UNCHANGED <<shared, mMutex, inRequest, workerVars, theDoneQueue, history>>
    /\ UNCHANGED <<mWakeup, processVars>>

\* line 67, no lock held
StartSet(t) ==
    /\ pc[t] = "start_set"
    /\ mRunFlag' = TRUE
    /\ pc' = [pc EXCEPT ![t] = "start_thread"]
    /\ UNCHANGED <<mQueue, mDoneQueue, mDoneCount, mThread, registered,
                   mMutex, inRequest, ret, workerVars, theDoneQueue, history>>
    /\ UNCHANGED <<mWakeup, processVars>>

\* lines 69-71: register the timeout handler, launch the worker, return 0
StartThread(t) ==
    /\ pc[t] = "start_thread"
    /\ registered' = TRUE
    /\ \E w \in FreeSlots(wpc) :
          /\ wpc' = [wpc EXCEPT ![w] = "run_lock"]
          /\ theQueue' = [theQueue EXCEPT ![w] = <<>>]
          /\ thePtr' = [thePtr EXCEPT ![w] = 1]
          /\ mThread' = w
    /\ ret' = Returned("Start", 0)
    /\ pc' = [pc EXCEPT ![t] = "idle"]
    /\ UNCHANGED <<mRunFlag, mQueue, mDoneQueue, mDoneCount,
                   mMutex, inRequest, theDoneQueue, history>>
    /\ UNCHANGED <<mWakeup, processVars>>

\* -------------------------------------------------------------- Shutdown
ShutdownReturnsEarlyNever(flag) == FALSE

\* line 76: if (! mRunFlag) return;
ShutdownReturnsEarly(flag) == ~flag

CallShutdownAny(t) ==
    /\ pc[t] = "idle"
    /\ pc' = [pc EXCEPT ![t] = "sd_lock"]
    /\ UNCHANGED <<shared, mMutex, inRequest, ret, workerVars, theDoneQueue, history>>
    /\ UNCHANGED <<mWakeup, processVars>>

CallShutdown(t) ==
    /\ ShutdownAllowed
    /\ CallShutdownAny(t)

\* lines 75-81: the part of Shutdown that runs with the mutex held
ShutdownBody(t) ==
    /\ pc[t] = "sd_lock"
    /\ CanLock(mMutex)
    /\ IF ShutdownReturnsEarly(mRunFlag)
       THEN /\ pc' = [pc EXCEPT ![t] = "idle"]
            /\ ret' = Returned("Shutdown", 0)
            /\ UNCHANGED <<mRunFlag, wpc, atShutdown>>
       ELSE /\ mRunFlag' = FALSE
            /\ wpc' \in Notify(wpc)
            /\ atShutdown' = atShutdown \cup Range(mQueue)
            /\ pc' = [pc EXCEPT ![t] = "sd_join"]
            /\ UNCHANGED ret
    /\ UNCHANGED <<mQueue, mDoneQueue, mDoneCount, mThread, registered,
                   mMutex, inRequest, theQueue, thePtr, theDoneQueue,
                   owed, order, resolved>>
    /\ UNCHANGED <<mWakeup, processVars>>

ShutdownJoinSkipped(t) ==
    /\ pc[t] = "sd_join"
    /\ pc' = [pc EXCEPT ![t] = "sd_unreg"]
    /\ UNCHANGED <<shared, mMutex, inRequest, ret, workerVars, theDoneQueue, history>>
    /\ UNCHANGED <<mWakeup, processVars>>

\* line 82: mThread.Join()
ShutdownJoin(t) ==
    /\ pc[t] = "sd_join"
    /\ Joinable(mThread, wpc)
    /\ wpc' = IF mThread = NoThread THEN wpc
              ELSE [wpc EXCEPT ![mThread] = "none"]
    /\ mThread' = NoThread
    /\ pc' = [pc EXCEPT ![t] = "sd_unreg"]
    /\ UNCHANGED <<mRunFlag, mQueue, mDoneQueue, mDoneCount, registered,
                   mMutex, inRequest, ret, theQueue, thePtr, theDoneQueue, history>>
    /\ UNCHANGED <<mWakeup, processVars>>

\* line 83: mNetManager.UnRegisterTimeoutHandler(this)
ShutdownUnregister(t) ==
    /\ pc[t] = "sd_unreg"
    /\ registered' = FALSE
    /\ ret' = Returned("Shutdown", 0)
    /\ pc' = [pc EXCEPT ![t] = "idle"]
    /\ UNCHANGED <<mRunFlag, mQueue, mDoneQueue, mDoneCount, mThread,
                   mMutex, inRequest, workerVars, theDoneQueue, history>>
    /\ UNCHANGED <<mWakeup, processVars>>

\* --------------------------------------------------------------- Enqueue
EnqueueRejectsNever(flag) == FALSE

\* line 89: if (! mRunFlag) return -EINVAL;
EnqueueRejects(flag) == ~flag

EnqueueWakeFlagNever(q) == FALSE

\* line 92: const bool theWakeFlag = mQueue.IsEmpty();
EnqueueWakeFlag(q) == IsEmpty(q)

\* lines 88-97: the whole of Enqueue runs with the mutex held
EnqueueBody(r) ==
    /\ CanLock(mMutex)
    /\ IF EnqueueRejects(mRunFlag)
       THEN /\ ret' = Returned("Enqueue", -EINVAL)
            /\ UNCHANGED <<mQueue, wpc, history>>
       ELSE /\ mQueue' = PushBack(mQueue, r)
            /\ wpc' \in (IF EnqueueWakeFlag(mQueue) THEN Notify(wpc) ELSE {wpc})
            /\ ret' = Returned("Enqueue", 0)
            /\ owed' = [owed EXCEPT ![r] = @ + 1]
            /\ order' = Append(order, r)
            /\ resolved' = resolved \ {r}
            /\ atShutdown' = atShutdown \ {r}
    /\ UNCHANGED <<mRunFlag, mDoneQueue, mDoneCount, mThread, registered,
                   mMutex, theQueue, thePtr, theDoneQueue>>
    /\ UNCHANGED <<mWakeup, processVars>>

\* The caller owns the Request: it hands Enqueue only a Request that no
\* queue links and that no callback is handing to Enqueue.
CanSubmit(r) ==
    /\ r \notin Outstanding
    /\ r # inRequest

\* Enqueue called by a caller thread
Enqueue(t, r) ==
    /\ pc[t] = "idle"
    /\ CanSubmit(r)
    /\ EnqueueBody(r)
    /\ UNCHANGED <<pc, inRequest>>

\* Enqueue called by a Done() callback, on the event-loop thread
CallbackEnqueue ==
    /\ pc[EvThread] = "cb_enqueue"
    /\ EnqueueBody(inRequest)
    /\ pc' = [pc EXCEPT ![EvThread] = "to_loop"]
    /\ inRequest' = NoReq

\* --------------------------------------------------------------- Timeout
\* line 106: theDoneQueue.PushBack(mDoneQueue)
DrainTaken(local, doneq) == SpliceInto(local, doneq)

DoneLeftBehind(doneq) == doneq

\* line 106: mDoneQueue after theDoneQueue.PushBack(mDoneQueue)
DoneLeft(doneq) == SpliceRest(doneq)

\* line 101: if (0 == SyncAddAndFetch(mDoneCount, 0)) return;
TimeoutSkips(cnt) == cnt = 0

\* The event loop invokes Timeout() of a registered handler.
TimeoutCheck ==
    /\ pc[EvThread] = "idle"
    /\ registered
    /\ IF TimeoutSkips(mDoneCount)
       THEN UNCHANGED pc
       ELSE pc' = [pc EXCEPT ![EvThread] = "to_lock"]
    /\ mWakeup' = WakeupServed(mWakeup)
    /\ UNCHANGED <<shared, mMutex, inRequest, ret, workerVars, theDoneQueue, history>>
    /\ UNCHANGED processVars

\* line 105: QCStMutexLocker theLock(mMutex)
TimeoutLock ==
    /\ pc[EvThread] = "to_lock"
    /\ CanLock(mMutex)
    /\ mMutex' = EvThread
    /\ pc' = [pc EXCEPT ![EvThread] = "to_splice"]
    /\ UNCHANGED <<shared, inRequest, ret, workerVars, theDoneQueue, history>>
    /\ UNCHANGED <<mWakeup, processVars>>

TimeoutUnlockForgotten(owner) == owner

\* line 108: theLock.Unlock() before the delivery loop
TimeoutUnlock(owner) == NoOwner

\* lines 106-108: splice the done queue, reset the indicator, unlock
TimeoutSplice ==
    /\ pc[EvThread] = "to_splice"
    /\ mMutex = EvThread
    /\ theDoneQueue' = DrainTaken(theDoneQueue, mDoneQueue)
    /\ mDoneQueue' = DoneLeft(mDoneQueue)
    /\ mDoneCount' = 0
    /\ mMutex' = TimeoutUnlock(mMutex)
    /\ pc' = [pc EXCEPT ![EvThread] = "to_loop"]
    /\ UNCHANGED <<mRunFlag, mQueue, mThread, registered, inRequest, ret,
                   workerVars, history>>
    /\ UNCHANGED <<mWakeup, processVars>>

\* lines 110-112: PopFront, then Done() on the popped Request.  The callback
\* is the caller's code: it returns, or it hands the Request it was given
\* to Enqueue again.
TimeoutDone(resubmit) ==
    /\ pc[EvThread] = "to_loop"
    /\ ~IsEmpty(theDoneQueue)
    /\ LET r == Head(theDoneQueue) IN
          /\ theDoneQueue' = Tail(theDoneQueue)
          /\ owed' = [owed EXCEPT ![r] = @ - 1]
          /\ order' = Remove(order, r)
          /\ resolved' = resolved \ {r}
          /\ atShutdown' = atShutdown \ {r}
          /\ IF resubmit
             THEN /\ pc' = [pc EXCEPT ![EvThread] = "cb_enqueue"]
                  /\ inRequest' = r
             ELSE UNCHANGED <<pc, inRequest>>
    /\ UNCHANGED <<shared, mMutex, ret, workerVars>>
    /\ UNCHANGED <<mWakeup, processVars>>

\* line 110: PopFront returns null, Timeout returns; theLock's destructor
\* releases the mutex should it still be held
TimeoutReturn ==
    /\ pc[EvThread] = "to_loop"
    /\ IsEmpty(theDoneQueue)
    /\ pc' = [pc EXCEPT ![EvThread] = "idle"]
    /\ mMutex' = IF mMutex = EvThread THEN NoOwner ELSE mMutex
    /\ UNCHANGED <<shared, inRequest, ret, workerVars, theDoneQueue, history>>
    /\ UNCHANGED <<mWakeup, processVars>>

\* ------------------------------------------------------------------- Run
\* line 122: theQueue.PushBack(mQueue), theQueue being empty
BatchTaken(q) == SpliceInto(<<>>, q)

PendingLeftBehind(q) == q

PendingLeft(q) == SpliceRest(q)

DoneAfterInFront(doneq, batch) == SpliceInto(batch, doneq)

\* line 132: mDoneQueue.PushBack(theQueue)
DoneAfter(doneq, batch) == SpliceInto(doneq, batch)

BatchLeftBehind(batch) == batch

\* line 132: theQueue after mDoneQueue.PushBack(theQueue)
BatchLeft(batch) == SpliceRest(batch)

\* line 118: while (mRunFlag && mQueue.IsEmpty())
WorkerWaits(flag, q) == flag /\ IsEmpty(q)

WakeupFlagNever(batch, doneq) == FALSE

WakeupFlagOnEmptyDone(batch, doneq) == IsEmpty(doneq)

WakeupFlagAnyBatch(batch, doneq) == ~IsEmpty(batch)

\* lines 130-131: ! theQueue.IsEmpty() && mDoneQueue.IsEmpty()
WakeupFlag(batch, doneq) == ~IsEmpty(batch) /\ IsEmpty(doneq)

WorkerExitsUndrained(flag, q) == ~flag

WorkerExitsOnEmpty(flag, q) == IsEmpty(q)

WorkerExitsNever(flag, q) == FALSE

\* line 137: if (! mRunFlag && mQueue.IsEmpty()) break;
WorkerExits(flag, q) == ~flag /\ IsEmpty(q)

\* line 116: QCStMutexLocker theLock(mMutex)
RunLock(w) ==
    /\ wpc[w] = "run_lock"
    /\ CanLock(mMutex)
    /\ mMutex' = w
    /\ wpc' = [wpc EXCEPT ![w] = "run_loop"]
    /\ UNCHANGED <<shared, pc, inRequest, ret, theQueue, thePtr, theDoneQueue, history>>
    /\ UNCHANGED <<mWakeup, processVars>>

\* lines 118-124, mutex held: wait on the condition (which releases the
\* mutex), or splice the pending queue into theQueue and unlock.
RunLoop(w) ==
    /\ wpc[w] = "run_loop"
    /\ mMutex = w
    /\ IF WorkerWaits(mRunFlag, mQueue)
       THEN /\ wpc' = [wpc EXCEPT ![w] = "waiting"]
            /\ UNCHANGED <<mQueue, theQueue, thePtr>>
       ELSE /\ theQueue' = [theQueue EXCEPT ![w] = BatchTaken(mQueue)]
            /\ mQueue' = PendingLeft(mQueue)
            /\ thePtr' = [thePtr EXCEPT ![w] = 1]
            /\ wpc' = [wpc EXCEPT ![w] = "process"]
    /\ mMutex' = NoOwner
    /\ UNCHANGED <<mRunFlag, mDoneQueue, mDoneCount, mThread, registered,
                   pc, inRequest, ret, theDoneQueue, history>>
    /\ UNCHANGED <<mWakeup, processVars>>

\* line 119: a notified waiter returns from Wait once it owns the mutex
\* again, and re-evaluates the loop condition.
CondWake(w) ==
    /\ wpc[w] = "notified"
    /\ CanLock(mMutex)
    /\ mMutex' = w
    /\ wpc' = [wpc EXCEPT ![w] = "run_loop"]
    /\ UNCHANGED <<shared, pc, inRequest, ret, theQueue, thePtr, theDoneQueue, history>>
    /\ UNCHANGED <<mWakeup, processVars>>

\* line 119: a condition wait may also return with no notification.
SpuriousWake(w) ==
    /\ wpc[w] = "waiting"
    /\ wpc' = [wpc EXCEPT ![w] = "notified"]
    /\ UNCHANGED <<shared, mMutex, pc, inRequest, ret, theQueue, thePtr,
                   theDoneQueue, history>>
    /\ UNCHANGED <<mWakeup, processVars>>

\* lines 125-128: Process(*thePtr); thePtr = GetNext(*thePtr), no lock held
RunProcess(w) ==
    /\ wpc[w] = "process"
    /\ thePtr[w] <= Len(theQueue[w])
    /\ resolved' = resolved \cup {theQueue[w][thePtr[w]]}
    /\ thePtr' = [thePtr EXCEPT ![w] = @ + 1]
    /\ UNCHANGED <<shared, mMutex, pc, inRequest, ret, wpc, theQueue,
                   theDoneQueue, owed, order, atShutdown>>
    /\ UNCHANGED <<mWakeup, processVars>>

\* line 129: theUnlocker.Lock() once the batch is through
RunRelock(w) ==
    /\ wpc[w] = "process"
    /\ thePtr[w] > Len(theQueue[w])
    /\ CanLock(mMutex)
    /\ mMutex' = w
    /\ wpc' = [wpc EXCEPT ![w] = "run_done"]
    /\ UNCHANGED <<shared, pc, inRequest, ret, theQueue, thePtr, theDoneQueue, history>>
    /\ UNCHANGED <<mWakeup, processVars>>

\* lines 130-139, mutex held: splice the batch into the done queue, raise
\* the indicator if a wakeup is owed, then leave the loop (theLock's
\* destructor unlocks) or go round again with the mutex still held.
RunFinish(w) ==
    /\ wpc[w] = "run_done"
    /\ mMutex = w
    /\ mDoneQueue' = DoneAfter(mDoneQueue, theQueue[w])
    /\ theQueue' = [theQueue EXCEPT ![w] = BatchLeft(theQueue[w])]
    /\ thePtr' = [thePtr EXCEPT ![w] = 1]
    /\ mDoneCount' = IF WakeupFlag(theQueue[w], mDoneQueue)
                     THEN mDoneCount + 1 ELSE mDoneCount
    /\ mWakeup' = IF WakeupFlag(theQueue[w], mDoneQueue)
                  THEN Wakeup(mWakeup) ELSE mWakeup
    /\ IF WorkerExits(mRunFlag, mQueue)
       THEN /\ wpc' = [wpc EXCEPT ![w] = "exited"]
            /\ mMutex' = NoOwner
       ELSE /\ wpc' = [wpc EXCEPT ![w] = "run_loop"]
            /\ UNCHANGED mMutex
    /\ UNCHANGED <<mRunFlag, mQueue, mThread, registered, pc, inRequest, ret,
                   theDoneQueue, history>>
    /\ UNCHANGED processVars

\* --------------------------------------------------------------- Process
\* The address families of the entries getaddrinfo hands back, AF_UNIX
\* standing for every family that is neither AF_INET nor AF_INET6.
Families == {"AF_INET", "AF_INET6", "AF_UNIX"}

\* The nonzero codes getaddrinfo and getnameinfo fail with.
GaiErrors == 1..NumErr

\* The numeric host texts getnameinfo writes into mNameBuf.
Texts == {"10.0.0.1", "::1"}

\* One struct addrinfo of the result list, with the answer getnameinfo gives
\* for its ai_addr: a status and, if that is 0, the text.
Entries == [family : Families, status : {0} \cup GaiErrors, text : Texts]

SeqUpTo(S, n) == UNION {[1..k -> S] : k \in 0..n}

\* lines 173, 203: gai_strerror, a text that tells the codes apart
GaiStrerror(e) == "gai_strerror " \o ToString(e)

LookupFailedNever(status) == FALSE

\* line 172: if (0 != inReq.mStatus)
LookupFailed(status) == status # 0

\* line 184: AF_INET != ai_family && AF_INET6 != ai_family
FamilySkipped(family) == family # "AF_INET" /\ family # "AF_INET6"

\* line 193: if (0 != theStatus)
FormatFailed(status) == status # 0

StatusOverriddenOnAnyError(addrs, err) == err # 0

\* line 201: if (inReq.mIpAddresses.empty() && 0 != theErr)
StatusOverridden(addrs, err) == addrs = <<>> /\ err # 0

\* lines 163-180: getaddrinfo, clear the addresses, and on failure set
\* the message and return
ProcessLookup ==
    /\ ppc = "lookup"
    /\ IF LookupFailed(backend.status)
       THEN /\ inReq' = Fields(backend.status, GaiStrerror(backend.status), <<>>)
            /\ ppc' = "done"
       ELSE /\ inReq' = Fields(backend.status, "", <<>>)
            /\ ppc' = "loop"
    /\ theErr' = 0
    /\ theEntryPtr' = 1
    /\ UNCHANGED <<backend, calls>>
    /\ UNCHANGED <<shared, mMutex, pc, inRequest, ret, workerVars,
                   theDoneQueue, history, mWakeup>>

\* lines 181-199: one round of the loop over the result list
ProcessEntry ==
    /\ ppc = "loop"
    /\ theEntryPtr <= Len(backend.entries)
    /\ LET e == backend.entries[theEntryPtr] IN
          IF FamilySkipped(e.family)
          THEN UNCHANGED <<inReq, theErr, calls>>
          ELSE /\ calls' = calls + 1
               /\ IF FormatFailed(e.status)
                  THEN /\ theErr' = e.status
                       /\ UNCHANGED inReq
                  ELSE /\ inReq' = [inReq EXCEPT
                                      !.mIpAddresses = Append(@, e.text)]
                       /\ UNCHANGED theErr
    /\ theEntryPtr' = theEntryPtr + 1
    /\ UNCHANGED <<ppc, backend>>
    /\ UNCHANGED <<shared, mMutex, pc, inRequest, ret, workerVars,
                   theDoneQueue, history, mWakeup>>

\* lines 200-204: the list is through
ProcessFinish ==
    /\ ppc = "loop"
    /\ theEntryPtr > Len(backend.entries)
    /\ inReq' = IF StatusOverridden(inReq.mIpAddresses, theErr)
                THEN [inReq EXCEPT !.mStatus = theErr,
                                   !.mStatusMsg = GaiStrerror(theErr)]
                ELSE inReq
    /\ ppc' = "done"
    /\ UNCHANGED <<backend, theEntryPtr, theErr, calls>>
    /\ UNCHANGED <<shared, mMutex, pc, inRequest, ret, workerVars,
                   theDoneQueue, history, mWakeup>>

\* ------------------------------------------------------- specifications
\* Steps inside a lifecycle call, Enqueue calls, the dispatcher, a worker.
LifecycleStepsOf(t) ==
    \/ StartCheck(t) \/ StartSet(t) \/ StartThread(t)
    \/ ShutdownBody(t) \/ ShutdownJoin(t) \/ ShutdownUnregister(t)

LifecycleSteps == \E t \in Callers : LifecycleStepsOf(t)

EnqueueSteps ==
    \/ \E t \in Callers, r \in Requests : Enqueue(t, r)
    \/ CallbackEnqueue

DispatcherSteps ==
    \/ TimeoutCheck \/ TimeoutLock \/ TimeoutSplice \/ TimeoutReturn
    \/ \E b \in BOOLEAN : TimeoutDone(b)

WorkerSteps ==
    \E w \in Workers :
        \/ RunLock(w) \/ RunLoop(w) \/ CondWake(w) \/ SpuriousWake(w)
        \/ RunProcess(w) \/ RunRelock(w) \/ RunFinish(w)

\* Callers keep Start apart from every other lifecycle call.
Next ==
    \/ \E t \in Callers : CallStart(t) \/ CallShutdown(t)
    \/ LifecycleSteps
    \/ EnqueueSteps
    \/ DispatcherSteps
    \/ WorkerSteps

Spec == Init /\ [][Next]_vars

\* The scheduler is fair to every thread that is inside a call, to the
\* worker and to the event loop, which keeps invoking Timeout() while the
\* handler is registered; a thread that keeps finding the mutex free now and
\* again gets it.  Nothing obliges a caller to make another call, and a
\* condition wait need not wake up unnotified.
FairCaller(t) ==
    /\ WF_vars(StartCheck(t) \/ StartSet(t) \/ StartThread(t))
    /\ SF_vars(ShutdownBody(t))
    /\ WF_vars(ShutdownJoin(t) \/ ShutdownUnregister(t))

FairDispatcher ==
    /\ SF_vars(CallbackEnqueue \/ TimeoutLock)
    /\ WF_vars(TimeoutCheck \/ TimeoutSplice \/ TimeoutReturn
                 \/ \E b \in BOOLEAN : TimeoutDone(b))

FairWorker(w) ==
    /\ SF_vars(RunLock(w) \/ CondWake(w) \/ RunRelock(w))
    /\ WF_vars(RunLoop(w) \/ RunProcess(w) \/ RunFinish(w))

\* For the progress properties one control thread makes the lifecycle calls
\* (the reference usage) and submits Requests, next to the callbacks.
Controller == "c1"

NextLive ==
    \/ CallStart(Controller) \/ CallShutdown(Controller)
    \/ LifecycleStepsOf(Controller)
    \/ \E r \in Requests : Enqueue(Controller, r)
    \/ CallbackEnqueue
    \/ DispatcherSteps
    \/ WorkerSteps

FairSpec ==
    /\ Init /\ [][NextLive]_vars
    /\ FairCaller(Controller)
    /\ FairDispatcher
    /\ \A w \in Workers : FairWorker(w)

\* Arbitrary caller threads issue lifecycle calls at any time.
NextRace ==
    \/ \E t \in Callers : CallStartAny(t) \/ CallShutdownAny(t)
    \/ LifecycleSteps
    \/ EnqueueSteps
    \/ DispatcherSteps
    \/ WorkerSteps

SpecRace == Init /\ [][NextRace]_vars

\* Process alone: one call on a Request whose fields hold anything a former
\* resolution may have left, against every answer of the backend.
PriorFields ==
    {NoFields} \cup {Fields(e, GaiStrerror(e), <<>>) : e \in GaiErrors}
               \cup {Fields(0, "", <<t>>) : t \in Texts}

Answers ==
    {Answer(st, es) : st \in {0} \cup GaiErrors,
                      es \in SeqUpTo(Entries, MaxEntries)}

InitProcess ==
    /\ mRunFlag = FALSE
    /\ mQueue = <<>>
    /\ mDoneQueue = <<>>
    /\ mDoneCount = 0
    /\ mMutex = NoOwner
    /\ mThread = NoThread
    /\ registered = FALSE
    /\ pc = [t \in Threads |-> "idle"]
    /\ inRequest = NoReq
    /\ ret = Returned("none", 0)
    /\ wpc = [w \in Workers |-> "none"]
    /\ theQueue = [w \in Workers |-> <<>>]
    /\ thePtr = [w \in Workers |-> 1]
    /\ theDoneQueue = <<>>
    /\ owed = [r \in Requests |-> 0]
    /\ order = <<>>
    /\ resolved = {}
    /\ atShutdown = {}
    /\ mWakeup = FALSE
    /\ ppc = "lookup"
    /\ inReq \in PriorFields
    /\ backend \in Answers
    /\ theEntryPtr = 1
    /\ theErr = 0
    /\ calls = 0

NextProcess == ProcessLookup \/ ProcessEntry \/ ProcessFinish

SpecProcess == InitProcess /\ [][NextProcess]_vars

TypeOK ==
    /\ mRunFlag \in BOOLEAN
    /\ registered \in BOOLEAN
    /\ mDoneCount \in Nat
    /\ mMutex \in {NoOwner, EvThread} \cup Workers
    /\ mThread \in {NoThread} \cup Workers
    /\ Range(mQueue) \subseteq Requests
    /\ Range(mDoneQueue) \subseteq Requests
    /\ ret.val \in {0, -EINVAL}
    /\ mWakeup \in BOOLEAN

\* ------------------------------------------------------------ properties
\* C1, as stated: every Request that Enqueue accepted eventually gets its
\* Done() callback, whatever Start / Shutdown / Enqueue calls come later.
EveryAcceptedDelivered ==
    \A r \in Requests : (owed[r] > 0) ~> (owed[r] = 0)

\* C1, amended: every Request that Enqueue accepted eventually gets its
\* Done() callback unless a Shutdown has the timeout handler unregistered;
\* from then on it is delivered only once a later Start registers it again.
DeliveredWhileRegistered ==
    \A r \in Requests : (owed[r] > 0) ~> (owed[r] = 0 \/ ~registered)

\* An accepted, resolved Request left in the done queue by a Shutdown.
StrandedInDoneQueue ==
    /\ ~registered
    /\ Alive = {}
    /\ \E r \in Requests : owed[r] > 0 /\ r \in Range(mDoneQueue)

\* C2: Done() is never invoked on a Request more often than Enqueue
\* accepted it, so never twice for one submission and never for a Request
\* that was not accepted.
NoSpuriousDelivery == \A r \in Requests : owed[r] >= 0

\* Done() has been invoked on a Request whose every submission is answered.
CallbackRunning ==
    /\ pc[EvThread] = "cb_enqueue"
    /\ owed[inRequest] = 0

\* C3: an Enqueue call that finds the facade not Running returns -EINVAL and
\* touches neither queue nor the indicator, wakes no worker and leaves the
\* Request owed no callback.
EnqueueStep ==
    \/ \E t \in Callers, r \in Requests : Enqueue(t, r)
    \/ CallbackEnqueue

EnqueueNotRunningNoEffect ==
    [][(~mRunFlag /\ EnqueueStep) =>
          /\ ret' = Returned("Enqueue", -EINVAL)
          /\ UNCHANGED <<mRunFlag, mQueue, mDoneQueue, mDoneCount, mMutex,
                         workerVars, theDoneQueue, history>>]_vars

EnqueueRejected ==
    /\ ret = Returned("Enqueue", -EINVAL)
    /\ ~mRunFlag

\* C4, as stated: a Request that was in the pending queue when Shutdown
\* cleared the running flag is never resolved by the worker.
PendingAtShutdownNeverResolved ==
    \A r \in atShutdown : r \notin resolved

\* C4, amended: a Request that was in the pending queue when Shutdown
\* cleared the running flag is spliced into a batch and resolved before the
\* worker exits: once no worker is alive it has left the pending queue
\* resolved (and waits in the done queue for a Timeout to deliver it).
PendingAtShutdownResolved ==
    Alive = {} =>
        \A r \in atShutdown :
            /\ r \in resolved
            /\ r \notin Range(mQueue)
            /\ r \in Range(mDoneQueue) \cup Range(theDoneQueue)

WorkerGoneAfterPendingShutdown ==
    /\ Alive = {}
    /\ atShutdown # {}

\* C5: Requests are resolved in the order Enqueue accepted them, and their
\* callbacks are invoked in that order, within a batch and across batches.
Before(a, b) ==
    \E i, j \in DOMAIN order : i < j /\ order[i] = a /\ order[j] = b

FifoOrder ==
    [][/\ \A r \in resolved' \ resolved :
             \A a \in Requests : Before(a, r) => a \in resolved
       /\ \A r \in Requests :
             owed'[r] < owed[r] => (order # <<>> /\ r = Head(order))]_vars

\* One batch resolved and waiting in the done queue while the worker has
\* resolved the next one.
TwoBatchesInFlight ==
    /\ mDoneQueue # <<>>
    /\ \E w \in Workers : theQueue[w] # <<>> /\ thePtr[w] > Len(theQueue[w])

\* C6: at most one worker thread is alive, whatever lifecycle calls
\* arbitrary caller threads interleave.
SingleWorker == Cardinality(Alive) <= 1

\* C7: Start while Running returns -EINVAL and changes nothing; Start while
\* not Running goes on, and when it returns 0 the flag is set, the handler
\* has been registered (it was not before) and exactly one worker is alive
\* (none was before).
StartStateMachine ==
    [][\A t \in Callers :
          /\ (pc[t] = "start_check" /\ pc'[t] # "start_check") =>
                IF mRunFlag
                THEN /\ pc'[t] = "idle"
                     /\ ret' = Returned("Start", -EINVAL)
                     /\ UNCHANGED <<shared, mMutex, workerVars>>
                ELSE pc'[t] = "start_set"
          /\ (pc[t] = "start_thread" /\ pc'[t] = "idle") =>
                /\ ret' = Returned("Start", 0)
                /\ mRunFlag'
                /\ ~registered /\ registered'
                /\ Alive = {} /\ Cardinality(Alive') = 1]_vars

StartRejected ==
    /\ ret = Returned("Start", -EINVAL)
    /\ Cardinality(Alive) = 1

\* C8: a Shutdown call that finds the facade not Running returns at once:
\* no notification, no join, no unregistration, nothing changed.
ShutdownIdempotent ==
    [][\A t \in Callers :
          (pc[t] = "sd_lock" /\ pc'[t] # "sd_lock" /\ ~mRunFlag) =>
              /\ pc'[t] = "idle"
              /\ UNCHANGED <<shared, mMutex, workerVars, theDoneQueue,
                             history>>]_vars

\* A second Shutdown call has returned while the first is still joining.
SecondShutdownReturned ==
    /\ ret.op = "Shutdown"
    /\ \E t \in Callers : pc[t] = "sd_join"

\* C9, as stated: whenever a Shutdown call returns, also one that overlaps
\* another Shutdown call, no worker thread is alive.
EveryShutdownReturnAfterWorkerExit ==
    [][\A t \in Callers :
          (InShutdown(t) /\ pc'[t] = "idle") => Alive' = {}]_vars

\* C9, amended: the Shutdown call that cleared the running flag returns
\* only once no worker thread is alive, and the timeout handler is
\* unregistered only after the worker has exited; a Shutdown call that
\* overlaps it finds the flag clear and returns at once.
JoiningShutdownAfterWorkerExit ==
    [][\A t \in Callers :
          /\ (pc[t] = "sd_join" /\ pc'[t] # "sd_join") => Alive = {}
          /\ (pc[t] = "sd_unreg" /\ pc'[t] = "idle") => Alive' = {}
          /\ (registered /\ ~registered') => Alive = {}]_vars

ShutdownJoined ==
    /\ \E t \in Callers : pc[t] = "sd_unreg"
    /\ \A w \in Workers : wpc[w] = "none"
    /\ registered

\* C10: while the dispatcher invokes Done() callbacks it does not own the
\* mutex; a callback that calls Enqueue gets the mutex and returns, and the
\* Request it submitted again is delivered again (as long as the handler
\* stays registered), never more often than it was accepted.
InCallbacks == pc[EvThread] \in {"to_loop", "cb_enqueue"}

Links(q, r) == Cardinality({i \in DOMAIN q : q[i] = r})

LinksOf(r) ==
    Links(mQueue, r) + Links(theQueue["w1"], r) + Links(theQueue["w2"], r)
        + Links(mDoneQueue, r) + Links(theDoneQueue, r)

AtMostOneQueue == \A r \in Requests : LinksOf(r) <= 1

\* A step that moves Requests between the queues is one of the four moves,
\* whole, made by the thread that owns the mutex (Enqueue owning it for the
\* length of its step).
QueueMove ==
    (\/ mQueue' # mQueue
     \/ mDoneQueue' # mDoneQueue
     \/ theQueue' # theQueue
     \/ Len(theDoneQueue') > Len(theDoneQueue))
    =>
    \/ /\ mMutex = NoOwner
       /\ \E r \in Requests : mQueue' = Append(mQueue, r)
       /\ UNCHANGED <<mDoneQueue, theQueue, theDoneQueue>>
    \/ /\ mMutex \in Workers
       /\ \A w \in Workers \ {mMutex} : theQueue'[w] = theQueue[w]
       /\ UNCHANGED theDoneQueue
       /\ \/ /\ theQueue[mMutex] = <<>>
             /\ theQueue'[mMutex] = mQueue
             /\ mQueue' = <<>>
             /\ UNCHANGED mDoneQueue
          \/ /\ mDoneQueue' = mDoneQueue \o theQueue[mMutex]
             /\ theQueue'[mMutex] = <<>>
             /\ UNCHANGED mQueue
    \/ /\ mMutex = EvThread
       /\ theDoneQueue' = theDoneQueue \o mDoneQueue
       /\ mDoneQueue' = <<>>
       /\ UNCHANGED <<mQueue, theQueue>>

\* C11: no Request is linked by more than one of the pending queue, a
\* worker's batch, the done queue and the dispatcher's batch, and Requests
\* move between them only by a whole append or splice made under the mutex
\* (callers submitting only Requests that are not outstanding).
QueueMembership == []AtMostOneQueue /\ [][QueueMove]_vars

RequestsInTwoBatches ==
    /\ \E w \in Workers : theQueue[w] # <<>>
    /\ theDoneQueue # <<>>

\* C12: when getaddrinfo fails with a code e # 0, then once Process has
\* returned mStatus is e, mStatusMsg is the backend's text for e and
\* mIpAddresses is empty, whatever the Request held before, and getnameinfo
\* was not called.
LookupFailure ==
    (ppc = "done" /\ backend.status # 0) =>
        /\ inReq.mStatus = backend.status
        /\ inReq.mStatusMsg = GaiStrerror(backend.status)
        /\ inReq.mIpAddresses = <<>>
        /\ calls = 0

FailedLookupWithEntries ==
    /\ ppc = "done"
    /\ backend.status # 0
    /\ \E i \in DOMAIN backend.entries :
          backend.entries[i].family = "AF_INET"

\* The IPv4/IPv6 entries of a result list whose formatting succeeds, the
\* ones whose formatting fails, and the texts of a list of entries.
Formattable(e) == e.family \in {"AF_INET", "AF_INET6"}

GoodEntries(es) == SelectSeq(es, LAMBDA e : Formattable(e) /\ e.status = 0)

BadEntries(es) == SelectSeq(es, LAMBDA e : Formattable(e) /\ e.status # 0)

TextsOf(es) == [i \in 1..Len(es) |-> es[i].text]

\* C13: when getaddrinfo succeeds, then once Process has returned
\* mIpAddresses holds, in the order of the result list, the texts of the
\* IPv4/IPv6 entries whose formatting succeeded; mStatus and mStatusMsg are
\* those of the last formatting error if there is no address and some
\* formatting failed, and 0 and the empty text otherwise.
PartialFailurePolicy ==
    (ppc = "done" /\ backend.status = 0) =>
        LET good == GoodEntries(backend.entries)
            bad == BadEntries(backend.entries)
        IN  /\ inReq.mIpAddresses = TextsOf(good)
            /\ IF good = <<>> /\ bad # <<>>
               THEN /\ inReq.mStatus = bad[Len(bad)].status
                    /\ inReq.mStatusMsg = GaiStrerror(bad[Len(bad)].status)
               ELSE /\ inReq.mStatus = 0
                    /\ inReq.mStatusMsg = ""

AddressKeptDespiteFailure ==
    /\ ppc = "done"
    /\ backend.status = 0
    /\ inReq.mIpAddresses # <<>>
    /\ BadEntries(backend.entries) # <<>>

\* C14: a worker blocked in its condition wait finds the running flag true
\* and the pending queue empty, and every Request in the pending queue is
\* in the end spliced into a worker's batch, though Enqueue notifies only
\* when it appends to an empty queue.
NoLostWorkerWakeup ==
    /\ [](\A w \in Workers :
            wpc[w] = "waiting" => mRunFlag /\ IsEmpty(mQueue))
    /\ \A r \in Requests :
          (r \in Range(mQueue)) ~> (r \in InWorkerBatch)

UnsignalledAppend ==
    /\ Len(mQueue) >= 2
    /\ \E w \in Workers : wpc[w] = "notified"

\* The step in which worker w, holding the mutex again, splices its batch
\* into the done queue.
SplicesBatch(w) == wpc[w] = "run_done" /\ wpc'[w] # "run_done"

RaisesAndWakes == mDoneCount' = mDoneCount + 1 /\ mWakeup'

\* C15 as claimed: splicing its batch into the done queue, the worker raises
\* the indicator and calls NetManager::Wakeup if and only if the done queue
\* was empty just before the splice.
WakeupIffDoneQueueEmpty ==
    [][\A w \in Workers :
          SplicesBatch(w) =>
              IF IsEmpty(mDoneQueue)
              THEN RaisesAndWakes
              ELSE UNCHANGED <<mDoneCount, mWakeup>>]_vars

\* C15: splicing its batch into the done queue, the worker raises the
\* indicator and calls NetManager::Wakeup if and only if the batch is not
\* empty and the done queue was empty just before the splice; an empty
\* batch, or a batch that arrives at a non-empty done queue, changes neither.
WakeupCoalescing ==
    [][\A w \in Workers :
          SplicesBatch(w) =>
              IF ~IsEmpty(theQueue[w]) /\ IsEmpty(mDoneQueue)
              THEN RaisesAndWakes
              ELSE UNCHANGED <<mDoneCount, mWakeup>>]_vars

EmptyBatchAtEmptyDoneQueue ==
    \E w \in Workers :
        /\ wpc[w] = "run_done"
        /\ mMutex = w
        /\ IsEmpty(theQueue[w])
        /\ IsEmpty(mDoneQueue)

\* mDoneCount tells whether the done queue holds anything.
IndicatorMatchesDoneQueue ==
    /\ mDoneCount \in {0, 1}
    /\ mDoneCount # 0 <=> ~IsEmpty(mDoneQueue)

\* mDoneCount goes up only in a worker's step 4 and down only in the
\* dispatcher's splice, either owning the mutex.
IndicatorWriters ==
    /\ mDoneCount' > mDoneCount =>
          mMutex \in Workers /\ wpc[mMutex] = "run_done"
    /\ mDoneCount' < mDoneCount =>
          mMutex = EvThread /\ pc[EvThread] = "to_splice"

\* C16: whenever the mutex is free mDoneCount is 0 or 1, and nonzero exactly
\* when the done queue is not empty; only the worker raises it and only the
\* dispatcher resets it, each owning the mutex; Shutdown followed by a
\* later Start does not break this.
DrainIndicator ==
    /\ [](mMutex = NoOwner => IndicatorMatchesDoneQueue)
    /\ [][IndicatorWriters]_vars

IndicatorKeptOverRestart ==
    /\ mMutex = NoOwner
    /\ mDoneCount = 1
    /\ mRunFlag
    /\ Alive # {}
    /\ atShutdown \cap Range(mDoneQueue) # {}

\* What one step does to a Timeout() invocation: it reads the indicator as
\* 0 and returns at once, taking no mutex and moving nothing; its splice,
\* made owning the mutex, takes the whole done queue and resets the
\* indicator; it hands its batch on only by Done() on the head; it returns
\* only with the batch empty.
TimeoutStep ==
    /\ (pc[EvThread] = "idle" /\ mDoneCount = 0) =>
          /\ pc'[EvThread] = "idle"
          /\ mMutex' # EvThread
          /\ UNCHANGED theDoneQueue
          /\ Len(mDoneQueue') >= Len(mDoneQueue)
          /\ mDoneCount' >= mDoneCount
    /\ (pc[EvThread] = "to_splice" /\ pc'[EvThread] # "to_splice") =>
          /\ mMutex = EvThread
          /\ theDoneQueue' = mDoneQueue
          /\ mDoneQueue' = <<>>
          /\ mDoneCount' = 0
    /\ theDoneQueue' # theDoneQueue /\ pc[EvThread] # "to_splice" =>
          /\ theDoneQueue' = Tail(theDoneQueue)
          /\ owed' = [owed EXCEPT ![Head(theDoneQueue)] = @ - 1]
    /\ (pc[EvThread] # "idle" /\ pc'[EvThread] = "idle") =>
          IsEmpty(theDoneQueue)

\* C17: a Timeout() that begins while the done queue holds Requests and the
\* mutex is free does not take the early return; it splices the whole done
\* queue, resets the indicator, invokes Done() on every Request it spliced
\* and returns; a Timeout() that reads the indicator as 0 returns without
\* the mutex and changes nothing.
DispatcherDrains ==
    /\ []((mMutex = NoOwner /\ ~IsEmpty(mDoneQueue)) => mDoneCount # 0)
    /\ [][TimeoutStep]_vars
    /\ (pc[EvThread] # "idle") ~> (pc[EvThread] = "idle")

WholeDoneQueueSpliced ==
    /\ pc[EvThread] = "to_loop"
    /\ Len(theDoneQueue) >= 2
    /\ IsEmpty(mDoneQueue)
    /\ mDoneCount = 0
    /\ mMutex = NoOwner

\* The step in which worker w leaves the loop of Run.
LeavesLoop(w) == wpc[w] # "exited" /\ wpc'[w] = "exited"

\* C18: a worker leaves its loop only owning the mutex, with the running
\* flag false, the pending queue empty and its batch spliced into the done
\* queue; hence whenever the running flag is false and no worker is alive
\* the pending queue is empty and no worker's batch holds a Request.
WorkerExitCondition ==
    /\ [][\A w \in Workers :
            LeavesLoop(w) =>
                /\ mMutex = w
                /\ ~mRunFlag
                /\ IsEmpty(mQueue)
                /\ mDoneQueue' = mDoneQueue \o theQueue[w]
                /\ IsEmpty(theQueue'[w])]_vars
    /\ []((~mRunFlag /\ Alive = {}) =>
            (IsEmpty(mQueue) /\ InWorkerBatch = {}))

WorkerExitedAfterLastBatch ==
    /\ ~mRunFlag
    /\ Alive = {}
    /\ \E w \in Workers : wpc[w] = "exited"
    /\ atShutdown \cap Range(mDoneQueue) # {}

\* C19: the running flag is read and written only by a thread that owns
\* the mutex: no step writes it, and no Start tests it, while another
\* thread is inside a critical section of the mutex.
MutexDiscipline ==
    [][(\/ mRunFlag' # mRunFlag
        \/ \E t \in Callers :
              pc[t] = "start_check" /\ pc'[t] # "start_check")
       => mMutex = NoOwner]_vars

\* C20: every Shutdown call of the control thread returns in the end, and
\* once the running flag is false a worker that is alive gets through its
\* batch and what is still pending and exits, whether Shutdown found it
\* waiting or resolving.
ShutdownTerminates ==
    /\ InShutdown(Controller) ~> (pc[Controller] = "idle")
    /\ (~mRunFlag /\ Alive # {}) ~> (Alive = {})

ShutdownWhileResolving ==
    /\ ~mRunFlag
    /\ pc[Controller] = "sd_join"
    /\ ~IsEmpty(mQueue)
    /\ \E w \in Workers : wpc[w] = "process" /\ ~IsEmpty(theQueue[w])

====
